---------------------------- MODULE Spec2Model ----------------------------
(***************************************************************************)
(* NanoDB (src/src/main.c): a prompt / read / tokenize / dispatch loop.   *)
(*                                                                         *)
(* Text is modelled as sequences of one-character strings.  The C library *)
(* calls the loop makes (fgets, strcspn, strtok, strcmp, atoi, strcpy,    *)
(* printf) are operators that compute what the calls compute.  One action *)
(* is one pass of the while loop, from the fgets call to the next one.    *)
(***************************************************************************)
EXTENDS Integers, Sequences, FiniteSets

(***************************************************************************)
(* Sizes declared in the source.                                           *)
(***************************************************************************)
BUF_SIZE == 256

USERNAME_SIZE == 32

EMAIL_SIZE == 255

\* range of `int`, the type of Row.id and of atoi's result
INT_MAX == 2147483647

INT_MIN == -INT_MAX - 1

(***************************************************************************)
(* Bounds of the model.                                                    *)
(***************************************************************************)
\* number of lines the user types in one session
MaxLines == 2

\* how far past a size limit the long sample tokens and lines go
Excess == 8

(***************************************************************************)
(* Bytes that are not input characters.                                    *)
(***************************************************************************)
\* the string terminator '\0'
NUL == "NUL"

\* a byte of an automatic object that was never written
INDET == "indeterminate"

(***************************************************************************)
(* String literals of the source.                                          *)
(***************************************************************************)
PROMPT ==
    <<"N", "a", "n", "o", "D", "B", ">", " ">>

CMD_q ==
    <<"q">>

CMD_quit ==
    <<"q", "u", "i", "t">>

CMD_insert ==
    <<"i", "n", "s", "e", "r", "t">>

FMT_inserted_ID ==
    <<"i", "n", "s", "e", "r", "t", "e", "d", " ", "I", "D", " ">>

FMT_user ==
    <<",", " ", "u", "s", "e", "r", " ">>

FMT_email ==
    <<",", " ", "e", "m", "a", "i", "l", " ">>

SYNTAX_MSG ==
    <<"s", "y", "n", "t", "a", "x", " ", "e", "r", "r", "o", "r", ":", " ",
      "i", "n", "s", "e", "r", "t", " ", "<", "i", "d", ">", " ",
      "<", "u", "s", "e", "r", "n", "a", "m", "e", ">", " ",
      "<", "e", "m", "a", "i", "l", ">", "\n">>

FMT_unrecognized ==
    <<"U", "n", "r", "e", "c", "o", "g", "n", "i", "z", "e", "d", " ",
      "c", "o", "m", "m", "a", "n", "d", " ", "'">>

FMT_unrecognized_end ==
    <<"'", ".", "\n">>

\* the delimiter set handed to strtok: a single space
DELIM == {" "}

(***************************************************************************)
(* C library calls.                                                        *)
(***************************************************************************)
Min(a, b) == IF a <= b THEN a ELSE b

Take(s, n) == SubSeq(s, 1, n)

Drop(s, n) == SubSeq(s, n + 1, Len(s))

\* strcspn(s + from - 1, reject): the first index >= from holding a character
\* of reject, or Len(s) + 1 (the terminator) when there is none
Scan(s, from, reject) ==
    IF from > Len(s) THEN Len(s) + 1
    ELSE CHOOSE i \in from..(Len(s) + 1) :
           /\ i = Len(s) + 1 \/ s[i] \in reject
           /\ \A j \in from..(i - 1) : s[j] \notin reject

\* strspn: the first index >= from holding a character outside accept
Skip(s, from, accept) ==
    IF from > Len(s) THEN Len(s) + 1
    ELSE CHOOSE i \in from..(Len(s) + 1) :
           /\ i = Len(s) + 1 \/ s[i] \notin accept
           /\ \A j \in from..(i - 1) : s[j] \in accept

Strcspn(s, reject) == Scan(s, 1, reject) - 1

\* gets(): the whole line however long it is
FgetsUnbounded(stream, n) ==
    LET k == Min(Scan(stream, 1, {"\n"}), Len(stream))
    IN  [str |-> Take(stream, k), rest |-> Drop(stream, k)]

\* fgets(buf, n, stdin) on a stream that holds characters: at most n - 1 of
\* them, stopping after a newline; the rest stays in the stream
Fgets(stream, n) ==
    LET k == Min(Min(Scan(stream, 1, {"\n"}), Len(stream)), n - 1)
    IN  [str |-> Take(stream, k), rest |-> Drop(stream, k)]

\* buf[strcspn(buf, "\n")] = 0
StripNewline(s) == Take(s, Strcspn(s, {"\n"}))

\* strsep-like splitting: no skipping of leading delimiters, so two adjacent
\* or a trailing delimiter give an empty token
StrtokNoSkip(s, save) ==
    IF save > Len(s) + 1 THEN [null |-> TRUE, str |-> <<>>, save |-> save]
    ELSE LET e == Scan(s, save, DELIM)
         IN  [null |-> FALSE, str |-> SubSeq(s, save, e - 1), save |-> e + 1]

\* strtok(.., " ") scanning s from position save: skip delimiters, return the
\* run of non-delimiters that follows (NULL when there is none) and the
\* position the next call resumes at
Strtok(s, save) ==
    LET b == Skip(s, save, DELIM)
    IN  IF b > Len(s) THEN [null |-> TRUE, str |-> <<>>, save |-> b]
        ELSE LET e == Scan(s, b, DELIM)
             IN  [null |-> FALSE, str |-> SubSeq(s, b, e - 1),
                  save |-> Min(e + 1, Len(s) + 1)]

\* !strcmp(a, b)
Streq(a, b) == a = b

DIGITS == {"0", "1", "2", "3", "4", "5", "6", "7", "8", "9"}

DigitVal(c) ==
    CASE c = "0" -> 0 [] c = "1" -> 1 [] c = "2" -> 2 [] c = "3" -> 3
      [] c = "4" -> 4 [] c = "5" -> 5 [] c = "6" -> 6 [] c = "7" -> 7
      [] c = "8" -> 8 [] c = "9" -> 9

\* isspace() among the characters a token can hold
SPACES == {" ", "\t"}

\* a <= b for two strings of digits of one length
DecLE(a, b) ==
    \/ a = b
    \/ \E i \in 1..Len(a) :
         /\ DigitVal(a[i]) < DigitVal(b[i])
         /\ \A j \in 1..(i - 1) : a[j] = b[j]

\* the digits of LONG_MAX where long has 64 bits; those of -LONG_MIN end in 8
LONG_MAX_DIGITS ==
    <<"9", "2", "2", "3", "3", "7", "2", "0", "3", "6",
      "8", "5", "4", "7", "7", "5", "8", "0", "7">>

\* One digit c more in a decimal magnitude.  m is the magnitude while int
\* can hold it; over is 0 while it can, 1 when the magnitude is exactly
\* INT_MAX + 1, 2 when it is larger; hi and lo are the two 16-bit halves of
\* the magnitude modulo 2^32; ds are its digits from the first that is not 0
\* (the first 20 of them).
Digit(st, c) ==
    LET d    == DigitVal(c)
        fits == st.over = 0 /\ (st.m < INT_MAX \div 10
                                \/ (st.m = INT_MAX \div 10 /\ d <= INT_MAX % 10))
        edge == st.over = 0 /\ st.m = INT_MAX \div 10 /\ d = (INT_MAX % 10) + 1
        l    == 10 * st.lo + d
    IN  [m    |-> IF fits THEN 10 * st.m + d ELSE INT_MAX,
         over |-> IF fits THEN 0 ELSE IF edge THEN 1 ELSE 2,
         lo   |-> l % 65536,
         hi   |-> (10 * st.hi + l \div 65536) % 65536,
         ds   |-> IF (st.ds = <<>> /\ d = 0) \/ Len(st.ds) >= 20 THEN st.ds
                  ELSE Append(st.ds, c)]

RECURSIVE Accumulate(_, _, _)
Accumulate(s, i, st) ==
    IF i > Len(s) \/ s[i] \notin DIGITS THEN st
    ELSE Accumulate(s, i + 1, Digit(st, s[i]))

Zero == [m |-> 0, over |-> 0, lo |-> 0, hi |-> 0, ds |-> <<>>]

\* a conversion that accepts only a token made of digits alone
StrtolStrict(s) ==
    IF s # <<>> /\ \A i \in 1..Len(s) : s[i] \in DIGITS
    THEN [neg |-> FALSE, mag |-> Accumulate(s, 1, Zero)]
    ELSE [neg |-> FALSE, mag |-> Zero]

\* strtol(s, NULL, 10) before any range handling: skip white space, take an
\* optional sign, then the leading run of digits (0 when there is none)
Strtol(s) ==
    LET b    == Skip(s, 1, SPACES)
        sgn  == b <= Len(s) /\ s[b] \in {"-", "+"}
        d    == IF sgn THEN b + 1 ELSE b
    IN  [neg |-> b <= Len(s) /\ s[b] = "-", mag |-> Accumulate(s, d, Zero)]

\* the int whose two's-complement halves are hi and lo
Signed(hi, lo) ==
    IF hi >= 32768 THEN (hi - 65536) * 65536 + lo ELSE hi * 65536 + lo

\* two's-complement truncation to int of a magnitude given by its halves
WrapInt(neg, hi, lo) ==
    IF ~neg \/ (hi = 0 /\ lo = 0) THEN Signed(hi, lo)
    ELSE Signed((65535 - hi + (IF lo = 0 THEN 1 ELSE 0)) % 65536,
                (65536 - lo) % 65536)

\* a 64-bit long cannot hold the value
BeyondLong(v) ==
    \/ Len(v.mag.ds) > Len(LONG_MAX_DIGITS)
    \/ /\ Len(v.mag.ds) = Len(LONG_MAX_DIGITS)
       /\ ~DecLE(v.mag.ds, IF v.neg
                           THEN Append(SubSeq(LONG_MAX_DIGITS, 1, 18), "8")
                           ELSE LONG_MAX_DIGITS)

\* atoi(s): the value when int can represent it.  Otherwise the behaviour is
\* undefined, and the C libraries give: the truncation of the value to int;
\* the nearest int (where long is int-sized); and, for a value a 64-bit long
\* cannot hold either, the truncation of the nearest long.
Atoi(s) ==
    LET v == Strtol(s)
    IN  IF v.mag.over = 0 THEN {IF v.neg THEN -v.mag.m ELSE v.mag.m}
        ELSE IF v.mag.over = 1 /\ v.neg THEN {INT_MIN}
        ELSE {WrapInt(v.neg, v.mag.hi, v.mag.lo),
              IF v.neg THEN INT_MIN ELSE INT_MAX}
             \cup (IF BeyondLong(v) THEN {IF v.neg THEN 0 ELSE -1} ELSE {})

RECURSIVE UDigits(_)
UDigits(n) ==
    LET d == <<"0", "1", "2", "3", "4", "5", "6", "7", "8", "9">>[(n % 10) + 1]
    IN  IF n < 10 THEN <<d>> ELSE Append(UDigits(n \div 10), d)

\* printf("%d", n)
FmtD(n) ==
    IF n = INT_MIN
    THEN <<"-">> \o UDigits(INT_MAX \div 10) \o UDigits((INT_MAX % 10) + 1)
    ELSE IF n < 0 THEN <<"-">> \o UDigits(-n)
    ELSE UDigits(n)


(***************************************************************************)
(* struct Row.  The text fields are modelled as the bytes that follow the *)
(* id: username at offsets 0..31, email at offsets 32..286.               *)
(***************************************************************************)
OFF_username == 0

OFF_email == OFF_username + USERNAME_SIZE

ROW_BYTES == USERNAME_SIZE + EMAIL_SIZE

\* `struct Row row;` : an automatic object, nothing written yet
FreshRow == [i \in 0..(ROW_BYTES - 1) |-> INDET]

\* a bounded copy (strlcpy with the size of the field the offset names)
StrcpyTruncating(mem, off, src) ==
    LET size == IF off = OFF_username THEN USERNAME_SIZE ELSE EMAIL_SIZE
        t    == Take(src, Min(Len(src), size - 1))
    IN  [mem |-> [i \in DOMAIN mem |->
                    IF off <= i /\ i < off + Len(t) THEN t[i - off + 1]
                    ELSE IF i = off + Len(t) THEN NUL
                    ELSE mem[i]],
         n   |-> Len(t) + 1]

\* strcpy(mem + off, src): every character of src and then the terminator,
\* whatever the size of the field at off; n is the number of bytes written
Strcpy(mem, off, src) ==
    [mem |-> [i \in DOMAIN mem |->
                IF off <= i /\ i < off + Len(src) THEN src[i - off + 1]
                ELSE IF i = off + Len(src) THEN NUL
                ELSE mem[i]],
     n   |-> Len(src) + 1]

\* What a copy of n bytes into a field of size bytes does.  Within the field
\* it is defined.  Past it the behaviour is undefined: the bytes land in what
\* follows the field ("overrun"), or a build with checked string functions
\* (_FORTIFY_SOURCE) stops the process before writing ("abort").
CopyOutcomes(n, size) ==
    IF n <= size THEN {"copy"} ELSE {"overrun", "abort"}

\* the string printf("%s", mem + off) reads: up to the first terminator
CStr(mem, off) ==
    LET e == CHOOSE i \in off..ROW_BYTES :
               /\ i = ROW_BYTES \/ mem[i] = NUL
               /\ \A j \in off..(i - 1) : mem[j] # NUL
    IN  [k \in 1..(e - off) |-> mem[off + k - 1]]

\* printf("inserted ID %d, user %s, email %s\n", row.id, row.username, row.email)
PrintInserted(id, mem) ==
    FMT_inserted_ID \o FmtD(id) \o FMT_user \o CStr(mem, OFF_username)
        \o FMT_email \o CStr(mem, OFF_email) \o <<"\n">>

\* printf("Unrecognized command '%s'.\n", buf) : the whole line
PrintUnrecognizedLine(command, line) ==
    FMT_unrecognized \o line \o FMT_unrecognized_end

\* printf("Unrecognized command '%s'.\n", command) ; line is the buffer the
\* command points into
PrintUnrecognized(command, line) ==
    FMT_unrecognized \o command \o FMT_unrecognized_end

\* id_string != NULL && username != NULL && email != NULL
HaveArgs(id_string, username, email) ==
    ~id_string.null /\ ~username.null /\ ~email.null

IsQuit(command) == Streq(command, CMD_q) \/ Streq(command, CMD_quit)

IsInsert(command) == Streq(command, CMD_insert)

(***************************************************************************)
(* The lines a session types.                                              *)
(***************************************************************************)
Rep(c, n) == [i \in 1..n |-> c]

RECURSIVE Join(_)
Join(ts) ==
    IF ts = <<>> THEN <<>>
    ELSE IF Len(ts) = 1 THEN ts[1]
    ELSE ts[1] \o <<" ">> \o Join(Tail(ts))

T_1 == <<"1">>

T_bob == <<"b", "o", "b">>

T_foobar == <<"f", "o", "o", "b", "a", "r">>

T_mail == <<"e", "@", "x">>

SampleIds ==
    { T_1, <<"0", "0", "7">>, <<"1", "2", "a", "b", "c">>, <<"a", "b", "c">>,
      <<"-", "7">>, <<"+", "5">>, <<"\t", "8">>, <<"-">>,
      <<"2", "1", "4", "7", "4", "8", "3", "6", "4", "7">>,
      <<"2", "1", "4", "7", "4", "8", "3", "6", "4", "8">>,
      <<"-", "2", "1", "4", "7", "4", "8", "3", "6", "4", "8">>,
      <<"4", "2", "9", "4", "9", "6", "7", "2", "9", "9">>,
      Rep("9", 20) }

SampleUsers ==
    { T_bob, Rep("u", USERNAME_SIZE - 1), Rep("u", USERNAME_SIZE),
      Rep("u", USERNAME_SIZE + Excess) }

SampleEmails ==
    { T_mail, Rep("m", EMAIL_SIZE - 1), Rep("m", EMAIL_SIZE + Excess) }

InsertLines ==
    { Join(<<CMD_insert, i, T_bob, T_mail>>) : i \in SampleIds }
    \cup { Join(<<CMD_insert, T_1, u, e>>) : u \in SampleUsers, e \in SampleEmails }

ShortLines ==
    { <<>>, <<" ">>, <<" ", " ", " ">>, <<"\t">>, <<" ", "\t", " ">>,
      CMD_q, CMD_quit, Join(<<CMD_q, T_foobar>>), <<" ">> \o CMD_quit,
      <<"Q">>, <<"Q", "U", "I", "T">>, CMD_quit \o <<"!">>, <<"q", "u">>,
      CMD_insert, Join(<<CMD_insert, T_1>>),
      Join(<<CMD_insert, T_1, T_bob>>),
      Join(<<CMD_insert, T_1, T_bob>>) \o <<" ">>,
      CMD_insert \o <<" ", " ">> \o Join(<<T_1, T_bob>>),
      Join(<<CMD_insert, T_1, T_bob, T_mail, T_foobar>>),
      <<" ", " ">> \o Join(<<CMD_insert, T_1, T_bob>>) \o <<" ", " ">> \o T_mail,
      <<"I", "n", "s", "e", "r", "t">> \o <<" ">> \o Join(<<T_1, T_bob, T_mail>>),
      CMD_insert \o <<"x">>, <<"\t">> \o Join(<<CMD_insert, T_1, T_bob, T_mail>>),
      T_foobar, Join(<<T_foobar, CMD_insert, CMD_quit>>) }

LongLines ==
    { Rep("a", BUF_SIZE - 2), Rep("a", BUF_SIZE - 1),
      Rep("a", BUF_SIZE - 1) \o CMD_q,
      Rep("a", BUF_SIZE - 1 + Excess),
      Rep(" ", BUF_SIZE - 1) \o CMD_quit,
      CMD_insert \o Rep(" ", BUF_SIZE - 1 - Len(CMD_insert))
          \o Join(<<T_1, T_bob, T_mail>>),
      Join(<<CMD_insert, T_1, T_bob>>)
          \o Rep(" ", BUF_SIZE - 1 - Len(Join(<<CMD_insert, T_1, T_bob>>)))
          \o T_mail }

\* lines ended by a newline
Lines == InsertLines \cup ShortLines \cup LongLines

\* last lines that the end of input follows without a newline
TailLines ==
    { CMD_quit, T_foobar, Join(<<CMD_insert, T_1, T_bob, T_mail>>),
      Join(<<CMD_insert, T_1>>), <<" ">>, Rep("a", BUF_SIZE - 1 + Excess) }

(***************************************************************************)
(* State.                                                                  *)
(***************************************************************************)
VARIABLES
    stdin,     \* characters typed and not yet read
    closed,    \* the input has ended: no character will follow those in stdin
    typed,     \* number of lines typed so far
    pc,        \* "fgets": at the fgets call; "done": main returned 0;
               \* "aborted": the process was stopped inside a checked copy
    buf,       \* the string in buf once the newline is cut (line 23)
    row,       \* the struct Row of the last pass: [id, mem]
    copied,    \* bytes the two strcpy calls of the last pass were to write
               \* (0: not called)
    out,       \* what was printed since the last fgets call returned
    kind,      \* the branch the last pass took
    prevKind,  \* the branch the pass before it took
    ndispatch  \* number of lines in which a command was found and dispatched

vars ==
    <<stdin, closed, typed, pc, buf, row, copied, out, kind, prevKind, ndispatch>>

NoRow == [id |-> 0, mem |-> FreshRow]

NoCopy == [username |-> 0, email |-> 0]

\* main up to the first fgets call: the first prompt is printed
Init ==
    /\ stdin = <<>>
    /\ closed = FALSE
    /\ typed = 0
    /\ pc = "fgets"
    /\ buf = <<>>
    /\ row = NoRow
    /\ copied = NoCopy
    /\ out = PROMPT
    /\ kind = "none"
    /\ prevKind = "none"
    /\ ndispatch = 0

(***************************************************************************)
(* What the pending fgets call can find in the stream: the rest of a line *)
(* it began to read, or the line the user types next.  `last` says that   *)
(* the input ends after these characters.                                  *)
(***************************************************************************)
Arrivals ==
    IF stdin # <<>> THEN {[chars |-> stdin, last |-> closed, new |-> 0]}
    ELSE IF closed \/ typed >= MaxLines THEN {}
    ELSE {[chars |-> l \o <<"\n">>, last |-> FALSE, new |-> 1] : l \in Lines}
         \cup {[chars |-> l, last |-> TRUE, new |-> 1] : l \in TailLines}

\* fgets returned f.str from the arrival a, the newline was cut giving line,
\* and the pass took branch k: what every branch does with the input
ReadLine(a, f, line, k) ==
    /\ stdin' = f.rest
    /\ closed' = a.last
    /\ typed' = typed + a.new
    /\ buf' = line
    /\ ndispatch' = ndispatch + (IF k = "blank" THEN 0 ELSE 1)
    /\ kind' = k
    /\ prevKind' = kind

(***************************************************************************)
(* One pass of the loop, by the branch it takes.  (\E x \in {e} names the  *)
(* value of e.)                                                            *)
(***************************************************************************)
\* fgets returns NULL at the end of input: break, return 0
Eof ==
    /\ pc = "fgets" /\ stdin = <<>>
    /\ closed' = TRUE
    /\ pc' = "done"
    /\ out' = <<>>
    /\ kind' = "eof"
    /\ prevKind' = kind
    /\ row' = NoRow
    /\ copied' = NoCopy
    /\ UNCHANGED <<stdin, typed, buf, ndispatch>>

\* command == NULL: continue, straight back to fgets
Blank ==
    /\ pc = "fgets"
    /\ \E a \in Arrivals : \E f \in {Fgets(a.chars, BUF_SIZE)} :
       \E line \in {StripNewline(f.str)} : \E command \in {Strtok(line, 1)} :
         /\ command.null
         /\ ReadLine(a, f, line, "blank")
    /\ out' = <<>>
    /\ row' = NoRow
    /\ copied' = NoCopy
    /\ UNCHANGED pc

\* "q" or "quit": break, return 0
Quit ==
    /\ pc = "fgets"
    /\ \E a \in Arrivals : \E f \in {Fgets(a.chars, BUF_SIZE)} :
       \E line \in {StripNewline(f.str)} : \E command \in {Strtok(line, 1)} :
         /\ ~command.null /\ IsQuit(command.str)
         /\ ReadLine(a, f, line, "quit")
    /\ pc' = "done"
    /\ out' = <<>>
    /\ row' = NoRow
    /\ copied' = NoCopy

\* "insert" with its three arguments
Insert ==
    /\ pc = "fgets"
    /\ \E a \in Arrivals : \E f \in {Fgets(a.chars, BUF_SIZE)} :
       \E line \in {StripNewline(f.str)} : \E command \in {Strtok(line, 1)} :
       \E id_string \in {Strtok(line, command.save)} :
       \E username \in {Strtok(line, id_string.save)} :
       \E email \in {Strtok(line, username.save)} :
         /\ ~command.null /\ ~IsQuit(command.str) /\ IsInsert(command.str)
         /\ HaveArgs(id_string, username, email)
         /\ ReadLine(a, f, line, "insert")
         /\ \E id \in Atoi(id_string.str) :
            \E c1 \in {Strcpy(FreshRow, OFF_username, username.str)} :
            \E c2 \in {Strcpy(c1.mem, OFF_email, email.str)} :
            \E o1 \in CopyOutcomes(c1.n, USERNAME_SIZE) :
            \E o2 \in CopyOutcomes(c2.n, EMAIL_SIZE) :
              IF o1 = "abort"
              THEN /\ pc' = "aborted"
                   /\ row' = [id |-> id, mem |-> FreshRow]
                   /\ copied' = [username |-> c1.n, email |-> 0]
                   /\ out' = <<>>
              ELSE IF o2 = "abort"
              THEN /\ pc' = "aborted"
                   /\ row' = [id |-> id, mem |-> c1.mem]
                   /\ copied' = [username |-> c1.n, email |-> 0]
                   /\ out' = <<>>
              ELSE /\ pc' = pc
                   /\ row' = [id |-> id, mem |-> c2.mem]
                   /\ copied' = [username |-> c1.n, email |-> c2.n]
                   /\ out' = PrintInserted(id, c2.mem) \o PROMPT

\* "insert" with an argument missing
InsertSyntaxError ==
    /\ pc = "fgets"
    /\ \E a \in Arrivals : \E f \in {Fgets(a.chars, BUF_SIZE)} :
       \E line \in {StripNewline(f.str)} : \E command \in {Strtok(line, 1)} :
       \E id_string \in {Strtok(line, command.save)} :
       \E username \in {Strtok(line, id_string.save)} :
       \E email \in {Strtok(line, username.save)} :
         /\ ~command.null /\ ~IsQuit(command.str) /\ IsInsert(command.str)
         /\ ~HaveArgs(id_string, username, email)
         /\ ReadLine(a, f, line, "syntax")
    /\ out' = SYNTAX_MSG \o PROMPT
    /\ row' = NoRow
    /\ copied' = NoCopy
    /\ UNCHANGED pc

\* any other first token
Unrecognized ==
    /\ pc = "fgets"
    /\ \E a \in Arrivals : \E f \in {Fgets(a.chars, BUF_SIZE)} :
       \E line \in {StripNewline(f.str)} : \E command \in {Strtok(line, 1)} :
         /\ ~command.null /\ ~IsQuit(command.str) /\ ~IsInsert(command.str)
         /\ ReadLine(a, f, line, "unrecognized")
         /\ out' = PrintUnrecognized(command.str, line) \o PROMPT
    /\ row' = NoRow
    /\ copied' = NoCopy
    /\ UNCHANGED pc

Next ==
    \/ Eof
    \/ Blank
    \/ Quit
    \/ Insert
    \/ InsertSyntaxError
    \/ Unrecognized

Spec == Init /\ [][Next]_vars

(***************************************************************************)
(* Vocabulary of the properties.  The words of a line are found here by a *)
(* definition of their own (maximal runs of characters other than the     *)
(* space), not by the tokenizer of the program.                            *)
(***************************************************************************)
\* the last pass read a line, and buf holds it
LineWasRead == kind \notin {"none", "eof"}

WordStarts(s) ==
    {i \in 1..Len(s) : s[i] # " " /\ (i = 1 \/ s[i - 1] = " ")}

NWords(s) == Cardinality(WordStarts(s))

Word(s, k) ==
    LET st == WordStarts(s)
        b  == CHOOSE i \in st : Cardinality({j \in st : j < i}) = k - 1
        e  == CHOOSE i \in b..Len(s) :
                /\ i = Len(s) \/ s[i + 1] = " "
                /\ \A j \in b..i : s[j] # " "
    IN  SubSeq(s, b, e)

StartsWith(s, p) == Len(s) >= Len(p) /\ SubSeq(s, 1, Len(p)) = p

EndsWith(s, p) ==
    Len(s) >= Len(p) /\ SubSeq(s, Len(s) - Len(p) + 1, Len(s)) = p

Occurrences(p, s) ==
    Cardinality({i \in 1..(Len(s) - Len(p) + 1) : SubSeq(s, i, i + Len(p) - 1) = p})

\* the length of the longest prefix of w made of characters of S
LeadCount(w, S) ==
    CHOOSE n \in 0..Len(w) :
      /\ \A i \in 1..n : w[i] \in S
      /\ n = Len(w) \/ w[n + 1] \notin S

\* an optional sign and then digits, at least one, and nothing else
WellFormedDecimal(w) ==
    /\ w # <<>>
    /\ LET body == IF w[1] \in {"+", "-"} THEN Tail(w) ELSE w
       IN  body # <<>> /\ \A i \in 1..Len(body) : body[i] \in DIGITS

\* the leading decimal number of w: after white space and an optional sign,
\* the leading digits with their leading zeros removed
Unsigned(w) ==
    LET t == Drop(w, LeadCount(w, SPACES))
    IN  IF t # <<>> /\ t[1] \in {"+", "-"} THEN Tail(t) ELSE t

Negative(w) ==
    LET t == Drop(w, LeadCount(w, SPACES)) IN t # <<>> /\ t[1] = "-"

LeadingDigits(w) ==
    LET d == Take(Unsigned(w), LeadCount(Unsigned(w), DIGITS))
    IN  Drop(d, LeadCount(d, {"0"}))

\* the decimal text of the leading number of w
LeadingNumberText(w) ==
    IF LeadingDigits(w) = <<>> THEN <<"0">>
    ELSE (IF Negative(w) THEN <<"-">> ELSE <<>>) \o LeadingDigits(w)

\* a <= b for digit strings of one length
DigitsLE(a, b) ==
    \/ a = b
    \/ \E i \in 1..Len(a) :
         /\ DigitVal(a[i]) < DigitVal(b[i])
         /\ \A j \in 1..(i - 1) : a[j] = b[j]

\* an int can hold the leading number of w
LeadingNumberFits(w) ==
    LET d == LeadingDigits(w)
    IN  \/ Len(d) < 10
        \/ /\ Len(d) = 10
           /\ DigitsLE(d, IF Negative(w)
                          THEN <<"2", "1", "4", "7", "4", "8", "3", "6", "4", "8">>
                          ELSE <<"2", "1", "4", "7", "4", "8", "3", "6", "4", "7">>)

\* the line read begins with the word insert
InsertLine == LineWasRead /\ NWords(buf) >= 1 /\ Word(buf, 1) = CMD_insert

(***************************************************************************)
(* C1.  An insert line with three arguments is answered by exactly         *)
(* "inserted ID <n>, user <username>, email <email>" and a newline, <n>    *)
(* the value of <id> and the two other tokens unchanged, whatever their    *)
(* lengths.  (Stated for an <id> that is already the decimal text of an    *)
(* int; the next prompt follows the answer.)  Refuted by a username of 32  *)
(* characters or more.                                                     *)
(***************************************************************************)
C1_InsertEchoesTokens ==
    (/\ InsertLine /\ NWords(buf) = 4
     /\ LeadingNumberFits(Word(buf, 2))
     /\ LeadingNumberText(Word(buf, 2)) = Word(buf, 2))
    => out = FMT_inserted_ID \o Word(buf, 2) \o FMT_user \o Word(buf, 3)
               \o FMT_email \o Word(buf, 4) \o <<"\n">> \o PROMPT

(***************************************************************************)
(* C2.  Whenever the program is about to read a line, exactly one prompt   *)
(* was printed since the previous read (or since the start).  Refuted by   *)
(* the read that follows an empty line.                                    *)
(***************************************************************************)
C2_OnePromptBeforeEachRead ==
    pc = "fgets" => Occurrences(PROMPT, out) = 1

(***************************************************************************)
(* C3.  The program ends only on a line whose first word is q or quit, or  *)
(* on the end of input; it then has printed nothing more and returns 0;    *)
(* and every such line ends it.  Refuted by a run that ends otherwise.     *)
(***************************************************************************)
C3_EndsOnlyOnQuitOrEof ==
    /\ pc # "fgets" =>
         /\ pc = "done"
         /\ out = <<>>
         /\ \/ kind = "eof"
            \/ /\ LineWasRead /\ NWords(buf) >= 1
               /\ Word(buf, 1) \in {CMD_q, CMD_quit}
    /\ (LineWasRead /\ NWords(buf) >= 1 /\ Word(buf, 1) \in {CMD_q, CMD_quit})
         => pc = "done"

(***************************************************************************)
(* C4.  A line read whose first word is insert and which has zero, one or  *)
(* two further words is answered by exactly the fixed syntax-error text    *)
(* and the next prompt, and the program is back at the read.               *)
(***************************************************************************)
C4_MissingArgsSyntaxError ==
    (InsertLine /\ NWords(buf) <= 3)
    => /\ out = SYNTAX_MSG \o PROMPT
       /\ pc = "fgets"

C4_Witness ==
    /\ InsertLine /\ NWords(buf) = 3
    /\ out = SYNTAX_MSG \o PROMPT
    /\ pc = "fgets"

(***************************************************************************)
(* C5.  A line read whose first word T is none of insert, q, quit (exact,  *)
(* case-sensitive) is answered by exactly "Unrecognized command 'T'." and  *)
(* a newline, then the next prompt, and the program is back at the read;   *)
(* the line read after it gets the answer its own words call for.          *)
(***************************************************************************)
\* the answer the words of the line read call for
AnswerFitsLine ==
    IF NWords(buf) = 0 THEN out = <<>> /\ pc = "fgets"
    ELSE IF Word(buf, 1) \in {CMD_q, CMD_quit} THEN out = <<>> /\ pc = "done"
    ELSE IF Word(buf, 1) # CMD_insert
    THEN /\ out = FMT_unrecognized \o Word(buf, 1) \o FMT_unrecognized_end \o PROMPT
         /\ pc = "fgets"
    ELSE IF NWords(buf) <= 3 THEN out = SYNTAX_MSG \o PROMPT /\ pc = "fgets"
    ELSE \/ pc = "aborted" /\ out = <<>> /\ Len(Word(buf, 3)) >= USERNAME_SIZE
         \/ /\ pc = "fgets"
            /\ StartsWith(out, FMT_inserted_ID)
            /\ EndsWith(out, FMT_email \o Word(buf, 4) \o <<"\n">> \o PROMPT)

C5_UnrecognizedNamesToken ==
    /\ (/\ LineWasRead /\ NWords(buf) >= 1
        /\ Word(buf, 1) \notin {CMD_insert, CMD_q, CMD_quit})
       => /\ out = FMT_unrecognized \o Word(buf, 1) \o FMT_unrecognized_end
                     \o PROMPT
          /\ pc = "fgets"
    /\ (LineWasRead /\ prevKind = "unrecognized") => AnswerFitsLine

C5_Witness ==
    /\ LineWasRead /\ prevKind = "unrecognized"
    /\ NWords(buf) = 4 /\ Word(buf, 1) = CMD_insert
    /\ pc = "fgets" /\ StartsWith(out, FMT_inserted_ID)

(***************************************************************************)
(* C6.  A line read that consists only of spaces and tabs is handled like  *)
(* an empty line: nothing is printed for it and the loop goes on.  Refuted *)
(* by a tab.                                                               *)
(***************************************************************************)
C6_WhitespaceOnlyIsBlank ==
    (LineWasRead /\ buf # <<>> /\ \A i \in 1..Len(buf) : buf[i] \in {" ", "\t"})
    => /\ out = <<>>
       /\ pc = "fgets"

(***************************************************************************)
(* C7.  As claimed: in an insert line with three arguments whose <id> is   *)
(* not a well-formed decimal integer, the line is answered without an      *)
(* error message and the ID reported is 0.  Refuted by 12abc.              *)
(***************************************************************************)
C7_InvalidIdReportsZero ==
    (/\ InsertLine /\ NWords(buf) >= 4
     /\ ~WellFormedDecimal(Word(buf, 2))
     /\ pc # "aborted")
    => StartsWith(out, FMT_inserted_ID \o <<"0">> \o FMT_user)

(***************************************************************************)
(* C7, amended.  In an insert line with three arguments the <id> is never  *)
(* checked: no error message is printed for the line whatever the <id>,    *)
(* and the ID of the answer is the leading decimal number of the token     *)
(* (white space, an optional sign, then digits) when an int can hold it:   *)
(* 0 when the token has no leading digit, 12 for 12abc.                    *)
(***************************************************************************)
C7_IdIsLeadingNumber ==
    (InsertLine /\ NWords(buf) >= 4)
    => /\ out # SYNTAX_MSG \o PROMPT
       /\ ~StartsWith(out, FMT_unrecognized)
       /\ (pc # "aborted" /\ LeadingNumberFits(Word(buf, 2)))
            => StartsWith(out, FMT_inserted_ID \o LeadingNumberText(Word(buf, 2))
                                 \o FMT_user)

C7_Witness ==
    /\ InsertLine /\ NWords(buf) >= 4
    /\ ~WellFormedDecimal(Word(buf, 2))
    /\ LeadingDigits(Word(buf, 2)) # <<>>
    /\ StartsWith(out, FMT_inserted_ID \o LeadingNumberText(Word(buf, 2)) \o FMT_user)

(***************************************************************************)
(* C8.  Every line of the input is dispatched once, as one command: the    *)
(* number of lines dispatched never exceeds the number of lines typed.     *)
(* Refuted by a line longer than the buffer.                               *)
(***************************************************************************)
C8_OneDispatchPerLine ==
    ndispatch <= typed

(***************************************************************************)
(* C9.  An insert line read whose <username> has 32 characters or more is  *)
(* not rejected and its username is not cut: the copy is of the whole      *)
(* token and its terminator, more bytes than the 32 of the field, and      *)
(* where the copy is carried out the field is left full, with no           *)
(* terminator in it.                                                       *)
(***************************************************************************)
C9_LongUsernameCopiedUnchecked ==
    (InsertLine /\ NWords(buf) >= 4 /\ Len(Word(buf, 3)) >= USERNAME_SIZE)
    => /\ out # SYNTAX_MSG \o PROMPT
       /\ copied.username = Len(Word(buf, 3)) + 1
       /\ copied.username > USERNAME_SIZE
       /\ pc # "aborted" =>
            \A i \in 0..(USERNAME_SIZE - 1) :
              row.mem[OFF_username + i] = Word(buf, 3)[i + 1]

C9_Witness ==
    /\ InsertLine /\ NWords(buf) >= 4 /\ Len(Word(buf, 3)) >= USERNAME_SIZE
    /\ pc = "fgets"
    /\ copied.username > USERNAME_SIZE
    /\ \A i \in 0..(USERNAME_SIZE - 1) : row.mem[OFF_username + i] # NUL

(***************************************************************************)
(* C10.  The copy of the <email> stays within the email field: a line read *)
(* has at most 255 characters, so its fourth word and the terminator take  *)
(* at most 255 bytes, and the copy ends within the Row.                    *)
(***************************************************************************)
C10_EmailCopyFits ==
    /\ LineWasRead => Len(buf) <= BUF_SIZE - 1
    /\ (InsertLine /\ NWords(buf) >= 4)
         => /\ Len(Word(buf, 4)) + 1 <= EMAIL_SIZE
            /\ copied.email <= EMAIL_SIZE
            /\ OFF_email + copied.email <= ROW_BYTES

C10_Witness ==
    /\ InsertLine /\ NWords(buf) = 4
    /\ Len(buf) = BUF_SIZE - 1
    /\ stdin # <<>>
    /\ pc = "fgets"
    /\ copied.email = Len(Word(buf, 4)) + 1
    /\ copied.email > EMAIL_SIZE - USERNAME_SIZE

=============================================================================
